---- MODULE Spec2Model ----
(***************************************************************************)
(* git-super: OAuth token lifecycle.                                       *)
(*                                                                         *)
(* TokenManager (lib/auth/token-manager.mjs) and OAuthAuthStrategy         *)
(* (auth-strategy, in lib/auth/oauth-flows.mjs) as a state machine of      *)
(* cooperating async functions.  Every async function is a frame on the    *)
(* stack of the task that runs it; an action is the code between two       *)
(* suspension points (await) of one frame.  The code an async function     *)
(* runs before its first await runs inside the step of its caller, as in   *)
(* JavaScript.                                                             *)
(***************************************************************************)
EXTENDS Integers, Sequences, FiniteSets, TLC

----------------------------------------------------------------------------
(* Bounds of the model *)

NCallers   == 2    \* concurrent callers of the TokenManager instance
MaxCalls   == 2    \* top-level calls made in one behaviour
MaxRefresh == 2    \* _doRefresh() runs (promises) created in one behaviour
MaxTicks   == 1    \* clock steps in one behaviour
NStores    == 2    \* CredentialStore instances (processes) on one credentials file
MaxStoreOps == 3   \* CredentialStore operations in one behaviour

----------------------------------------------------------------------------
(* Program constants and time *)

refreshThreshold == 5 * 60 * 1000          \* ms
maxAttempts == 180                         \* of pollForToken
TickMs    == refreshThreshold \div 2       \* the clock advances in steps of 2.5 min
StartTime == 12 * refreshThreshold         \* Date.now() at construction: one hour after the epoch
ScopesJoined == "read write"               \* this.scopes.join(' ')

Callers      == 1 .. NCallers
RefreshTasks == (NCallers + 1) .. (NCallers + MaxRefresh)
Tasks        == Callers \cup RefreshTasks

----------------------------------------------------------------------------
(* JavaScript values *)

UNDEF  == "undefined"     \* undefined / null where a string is expected
Absent == << >>           \* an absent optional timestamp

\* Date#toISOString of a time in ms, and new Date(iso).getTime()
toISOString(ms) == << ms >>
getTime(iso)    == iso[1]

Has(r, f)   == f \in DOMAIN r
\* r.f of a JavaScript object: undefined when the property is missing
Field(r, f) == IF Has(r, f) THEN r[f] ELSE UNDEF

\* what CredentialStore.get gives for a service without a record (null);
\* also the value of a null tokenCache
NullRec == [present |-> FALSE, accessToken |-> UNDEF, refreshToken |-> UNDEF,
            tokenType |-> UNDEF, scope |-> UNDEF,
            issuedAt |-> Absent, expiresAt |-> Absent]

\* values returned (or thrown) by the async functions
Val(st, b, tok, h) == [st |-> st, b |-> b, tok |-> tok, h |-> h]
NoVal       == Val("none", FALSE, UNDEF, FALSE)
BoolVal(b)  == Val("ok", b, UNDEF, FALSE)
TokVal(tok) == Val("ok", FALSE, tok, FALSE)
VoidVal     == Val("ok", FALSE, UNDEF, FALSE)
Throw(e)    == Val(e, FALSE, UNDEF, FALSE)
Thrown(v)   == v.st # "ok"

ErrTokenExpired == "OAuth token expired and could not be refreshed"
ErrNoToken      == "No valid OAuth token available"
ErrStore        == "credentialStore.set failed"

----------------------------------------------------------------------------
(* Inputs *)

\* records a previous run of the program may have left in the CredentialStore
SeedExpiry == { Absent,
                toISOString(StartTime - 3600 * 1000),
                toISOString(StartTime + TickMs),
                toISOString(StartTime + refreshThreshold),
                toISOString(StartTime + 3600 * 1000) }

SeedRecords ==
  { NullRec } \cup
  { [present |-> TRUE, accessToken |-> a, refreshToken |-> r,
     tokenType |-> "Bearer", scope |-> ScopesJoined,
     issuedAt |-> toISOString(0), expiresAt |-> e] :
       a \in {"tok1", UNDEF}, r \in {"ref1", UNDEF}, e \in SeedExpiry }

\* bodies the token endpoint answers a refresh request with (response.json())
RefreshBodies ==
  << [access_token |-> "tok2", expires_in |-> 3600],
     [access_token |-> "tok2", refresh_token |-> "ref2", expires_in |-> 3600,
      token_type |-> "Bearer", scope |-> "read"] >>

\* token objects the login flows hand to storeTokens
LoginTokens ==
  << [accessToken |-> "tok3", refreshToken |-> "ref3", expiresIn |-> 3600,
      tokenType |-> "Bearer", scope |-> "read"],
     [accessToken |-> "tok3", expiresIn |-> 150],
     [accessToken |-> "tok3", expiresIn |-> 0] >>

----------------------------------------------------------------------------
(* State *)

VARIABLES
  now,             \* Date.now()
  store,           \* the CredentialStore record of the provider's service name
  tokenCache,      \* TokenManager.tokenCache
  refreshPromise,  \* TokenManager.refreshPromise: 0 (null) or the task of a _doRefresh()
  stack,           \* per task, the frames of its async functions, innermost first
  call,            \* per caller, what its current top-level call was and saw
  cause,           \* per _doRefresh() run, how it ended
  persisted,       \* the records credentialStore.set has completed for
  fetchCount,      \* POSTs sent to the refresh endpoint
  nCalls,          \* top-level calls made
  last,            \* the caller that made the latest top-level call
  seed             \* the CredentialStore record at construction

\* CredentialStore and DeviceCodeFlow, whose operations have specifications
\* of their own
VARIABLES
  env,             \* the runtime: is require defined, is keytar installed
  cs,              \* per CredentialStore instance: constructed, keytarAvailable
  keychain,        \* the OS keychain: per service name, the password of account 'default'
  file,            \* the file ~/.gitsuper/credentials.enc
  sop,             \* per CredentialStore instance, its operation in progress
  hist,            \* the operations of CredentialStore completed so far
  poll             \* the pollForToken() call

\* DeviceCodeFlow.execute and the auth login command
VARIABLES
  exec,            \* the execute() call
  login            \* the handleAuthLogin() call

cli == << exec, login >>

ext == << env, cs, keychain, file, sop, hist, poll, cli >>

vars == << now, store, tokenCache, refreshPromise, stack, call, cause,
           persisted, fetchCount, nCalls, last, seed, ext >>

----------------------------------------------------------------------------
(* CredentialStore: values *)

Services  == {"git-super-a", "git-super-b"}
Insts     == 1 .. NStores

\* the key _getEncryptionKey derives on this machine, and the key of a file
\* copied from another machine
MachineKey == "hostname-homedir"
ForeignKey == "otherhost-homedir"
IVs        == {"iv1", "iv2"}

JSON_stringify(x) == << "json", x >>
JSON_parse(j)     == j[2]

NoEntry   == << >>                         \* getPassword: null
EmptyData == [s \in Services |-> NullRec]  \* {}

NoFile      == [st |-> "missing", key |-> UNDEF, iv |-> UNDEF, data |-> << >>]
GarbageFile == [st |-> "garbage", key |-> UNDEF, iv |-> UNDEF, data |-> << >>]

NoOp == [op |-> "none", pc |-> "idle", svc |-> UNDEF, rec |-> NullRec,
         allData |-> EmptyData, solo |-> FALSE, fault |-> FALSE,
         readFile |-> FALSE, f0 |-> NoFile, k0 |-> NoEntry]

StoreUnused ==
  /\ env = [req |-> TRUE, keytar |-> FALSE]
  /\ cs = [i \in Insts |-> [built |-> FALSE, keytarAvailable |-> FALSE]]
  /\ keychain = [s \in Services |-> NoEntry]
  /\ file = NoFile
  /\ sop = [i \in Insts |-> NoOp]
  /\ hist = << >>

\* pollForToken before it is called; st, msg and the token fields are its
\* result, the rest of the record is what the polling has done so far
PollIdle ==
  [pc |-> "idle", attempt |-> 0, pollInterval |-> 0,
   st |-> "none", msg |-> << >>,
   accessToken |-> UNDEF, refreshToken |-> UNDEF, expiresIn |-> UNDEF,
   tokenType |-> UNDEF, scope |-> UNDEF,
   requests |-> 0, elapsed |-> 0, gap |-> 0, gapPrev |-> "none",
   prev |-> "none", answered |-> 0, transient |-> FALSE,
   body |-> 0, terminal |-> UNDEF, atTerminal |-> 0]

PollUnused == poll = PollIdle

\* execute() before it is called; init, cb, cbUrl and cbCode record what the
\* call has done so far
ExecIdle ==
  [pc |-> "idle", onUserCode |-> FALSE, init |-> "none", body |-> 0,
   deviceCode |-> UNDEF, userCode |-> UNDEF, verificationUri |-> UNDEF,
   verificationUriComplete |-> UNDEF, interval |-> 0,
   cb |-> "none", cbUrl |-> UNDEF, cbCode |-> UNDEF,
   st |-> "none", msg |-> << >>]

\* handleAuthLogin before it is called
LoginIdle ==
  [pc |-> "idle", provider |-> UNDEF, org |-> UNDEF, force |-> FALSE,
   isAuthenticated |-> FALSE, registered |-> FALSE,
   initiateAuth |-> 0, completeAuth |-> 0, opened |-> FALSE,
   log |-> {}, exit |-> 0]

CliUnused == exec = ExecIdle /\ login = LoginIdle

Frame(fn, pc) == [fn |-> fn, pc |-> pc, tok |-> UNDEF, rec |-> NullRec,
                  p |-> 0, ep |-> FALSE, ret |-> NoVal]

NoCall == [op |-> "none", solo |-> FALSE,
           seen |-> 0, seenSettled |-> FALSE, awaited |-> 0,
           hv |-> "none", rf |-> "none",
           near |-> FALSE, expired |-> FALSE, rt |-> FALSE,
           tok |-> UNDEF, exp |-> Absent, t |-> 0,
           ep |-> FALSE, sent |-> FALSE, resp |-> "none", deleted |-> FALSE]

Init ==
  /\ now = StartTime
  /\ store \in SeedRecords
  /\ seed = store
  /\ tokenCache = NullRec
  /\ refreshPromise = 0
  /\ stack = [t \in Tasks |-> IF t \in Callers THEN << Frame("caller", "idle") >> ELSE << >>]
  /\ call = [c \in Callers |-> NoCall]
  /\ cause = [p \in RefreshTasks |-> "none"]
  /\ persisted = IF store.present THEN {store} ELSE {}
  /\ fetchCount = 0
  /\ nCalls = 0
  /\ last = 0
  /\ StoreUnused
  /\ PollUnused
  /\ CliUnused

----------------------------------------------------------------------------
(* Frames *)

Top(t)      == Head(stack[t])
At(t, fn, pc) == stack[t] # << >> /\ Top(t).fn = fn /\ Top(t).pc = pc
Running(t)  == Len(stack[t]) > 1

\* a promise is settled when its task has unwound to its last frame
Settled(p)  == Len(stack[p]) = 1
Outcome(p)  == stack[p][1].ret

\* call an async function: f is its frame at its first await, the calling
\* frame waits at retPc
Enter(stk, retPc, f) == << f, [Head(stk) EXCEPT !.pc = retPc] >> \o Tail(stk)
\* the async function returned v before any await
Resume(stk, retPc, v) == << [Head(stk) EXCEPT !.pc = retPc, !.ret = v] >> \o Tail(stk)
\* return v (or throw it) from the innermost frame to the frame awaiting it
RetTo(stk, v)  == << [stk[2] EXCEPT !.ret = v] >> \o Tail(Tail(stk))
\* the same for the record of credentialStore.get and the body of response.json
RetRec(stk, r) == << [stk[2] EXCEPT !.rec = r, !.ret = VoidVal] >> \o Tail(Tail(stk))
RetBody(stk, i) == << [stk[2] EXCEPT !.p = i, !.ret = VoidVal] >> \o Tail(Tail(stk))

----------------------------------------------------------------------------
(* CredentialStore, as TokenManager uses it: one record per service name *)

credentialStore_get(s)       == s
credentialStore_set(s, data) == data
credentialStore_delete(s)    == NullRec

\* await this.credentialStore.get(service)
CredentialStoreGet(t) ==
  /\ At(t, "credentialStore.get", "await")
  /\ stack' = [stack EXCEPT ![t] = RetRec(@, credentialStore_get(store))]
  /\ UNCHANGED << now, store, tokenCache, refreshPromise, call, cause,
                  persisted, fetchCount, nCalls, last, seed, ext >>

\* await this.credentialStore.set(service, data): the record is written, or
\* encrypting / writing the file throws and the file is left as it was
CredentialStoreSet(t) ==
  /\ At(t, "credentialStore.set", "await")
  /\ \E ok \in BOOLEAN :
       IF ok
       THEN /\ store' = credentialStore_set(store, Top(t).rec)
            /\ persisted' = persisted \cup {Top(t).rec}
            /\ stack' = [stack EXCEPT ![t] = RetTo(@, VoidVal)]
       ELSE /\ stack' = [stack EXCEPT ![t] = RetTo(@, Throw(ErrStore))]
            /\ UNCHANGED << store, persisted >>
  /\ UNCHANGED << now, tokenCache, refreshPromise, call, cause,
                  fetchCount, nCalls, last, seed, ext >>

\* await this.credentialStore.delete(service)
CredentialStoreDelete(t) ==
  /\ At(t, "credentialStore.delete", "await")
  /\ store' = credentialStore_delete(store)
  /\ stack' = [stack EXCEPT ![t] = RetTo(@, VoidVal)]
  /\ call' = IF t \in Callers THEN [call EXCEPT ![t].deleted = TRUE] ELSE call
  /\ UNCHANGED << now, tokenCache, refreshPromise, cause,
                  persisted, fetchCount, nCalls, last, seed, ext >>

----------------------------------------------------------------------------
(* TokenManager.getAccessToken, getRefreshToken *)

\* the call: a cache hit returns at once, otherwise the store is read
getAccessToken(stk, retPc) ==
  IF tokenCache.accessToken # UNDEF
  THEN Resume(stk, retPc, TokVal(tokenCache.accessToken))
  ELSE Enter(Enter(stk, retPc, Frame("getAccessToken", "cont")),
             "cont", Frame("credentialStore.get", "await"))

\* after the store was read: populate the cache
GA_cont(t) ==
  /\ At(t, "getAccessToken", "cont")
  /\ LET stored == Top(t).rec IN
       IF stored.accessToken # UNDEF
       THEN /\ tokenCache' = stored
            /\ stack' = [stack EXCEPT ![t] = RetTo(@, TokVal(stored.accessToken))]
       ELSE /\ stack' = [stack EXCEPT ![t] = RetTo(@, TokVal(UNDEF))]
            /\ UNCHANGED tokenCache
  /\ UNCHANGED << now, store, refreshPromise, call, cause,
                  persisted, fetchCount, nCalls, last, seed, ext >>

getRefreshToken(stk, retPc) ==
  Enter(Enter(stk, retPc, Frame("getRefreshToken", "cont")),
        "cont", Frame("credentialStore.get", "await"))

GRT_cont(t) ==
  /\ At(t, "getRefreshToken", "cont")
  /\ stack' = [stack EXCEPT ![t] = RetTo(@, TokVal(Top(t).rec.refreshToken))]
  /\ UNCHANGED << now, store, tokenCache, refreshPromise, call, cause,
                  persisted, fetchCount, nCalls, last, seed, ext >>

----------------------------------------------------------------------------
(* TokenManager.hasValidToken, needsRefresh *)

\* expiresAt >= now
hasValidTokenResult_Inclusive(stored, t) ==
  IF stored.expiresAt = Absent THEN TRUE
  ELSE getTime(stored.expiresAt) >= t

\* the expiry check of hasValidToken, on the record read from the store
hasValidTokenResult(stored, t) ==
  IF stored.expiresAt = Absent THEN TRUE
  ELSE getTime(stored.expiresAt) > t

\* expiresAt - now <= threshold
needsRefreshResult_Inclusive(stored, t) ==
  IF stored.expiresAt = Absent THEN FALSE
  ELSE (getTime(stored.expiresAt) - t) <= refreshThreshold

\* the check of needsRefresh, on the record read from the store
needsRefreshResult(stored, t) ==
  IF stored.expiresAt = Absent THEN FALSE
  ELSE (getTime(stored.expiresAt) - t) < refreshThreshold

hasValidToken(stk, retPc) ==
  getAccessToken(Enter(stk, retPc, Frame("hasValidToken", "afterGA")), "afterGA")

\* const token = await this.getAccessToken(); if (!token) return false
HV_afterGA(t) ==
  /\ At(t, "hasValidToken", "afterGA")
  /\ LET token == Top(t).ret.tok IN
       /\ IF token = UNDEF
          THEN stack' = [stack EXCEPT ![t] = RetTo(@, BoolVal(FALSE))]
          ELSE stack' = [stack EXCEPT ![t] =
                           Enter(@, "cont", Frame("credentialStore.get", "await"))]
       /\ call' = [call EXCEPT ![t].tok = token]
  /\ UNCHANGED << now, store, tokenCache, refreshPromise, cause,
                  persisted, fetchCount, nCalls, last, seed, ext >>

HV_cont(t) ==
  /\ At(t, "hasValidToken", "cont")
  /\ stack' = [stack EXCEPT ![t] = RetTo(@, BoolVal(hasValidTokenResult(Top(t).rec, now)))]
  /\ call' = [call EXCEPT ![t].exp = Top(t).rec.expiresAt, ![t].t = now]
  /\ UNCHANGED << now, store, tokenCache, refreshPromise, cause,
                  persisted, fetchCount, nCalls, last, seed, ext >>

needsRefresh(stk, retPc) ==
  Enter(Enter(stk, retPc, Frame("needsRefresh", "cont")),
        "cont", Frame("credentialStore.get", "await"))

NR_cont(t) ==
  /\ At(t, "needsRefresh", "cont")
  /\ stack' = [stack EXCEPT ![t] = RetTo(@, BoolVal(needsRefreshResult(Top(t).rec, now)))]
  /\ call' = [call EXCEPT ![t].exp = Top(t).rec.expiresAt, ![t].t = now]
  /\ UNCHANGED << now, store, tokenCache, refreshPromise, cause,
                  persisted, fetchCount, nCalls, last, seed, ext >>

----------------------------------------------------------------------------
(* TokenManager.storeTokens *)

\* the record storeTokens builds from its argument at time t
StoreData(tokens, t) ==
  [present      |-> TRUE,
   accessToken  |-> Field(tokens, "accessToken"),
   refreshToken |-> Field(tokens, "refreshToken"),
   tokenType    |-> IF Has(tokens, "tokenType") THEN tokens.tokenType ELSE "Bearer",
   scope        |-> IF Has(tokens, "scope") THEN tokens.scope ELSE ScopesJoined,
   issuedAt     |-> toISOString(t),
   expiresAt    |-> IF Has(tokens, "expiresIn") /\ tokens.expiresIn # 0
                    THEN toISOString(t + tokens.expiresIn * 1000)
                    ELSE Absent]

\* the call: data is built and credentialStore.set is awaited
storeTokens(stk, retPc, tokens) ==
  LET data == StoreData(tokens, now) IN
    Enter(Enter(stk, retPc, [Frame("storeTokens", "cont") EXCEPT !.rec = data]),
          "cont", [Frame("credentialStore.set", "await") EXCEPT !.rec = data])

\* the cache updated whether or not set completed
ST_cont_CacheAlways(t) ==
  /\ At(t, "storeTokens", "cont")
  /\ tokenCache' = Top(t).rec
  /\ stack' = [stack EXCEPT ![t] =
                 RetTo(@, IF Thrown(Top(t).ret) THEN Top(t).ret ELSE VoidVal)]
  /\ UNCHANGED << now, store, refreshPromise, call, cause,
                  persisted, fetchCount, nCalls, last, seed, ext >>

\* after set: this.tokenCache = data (a throw of set leaves the function)
ST_cont(t) ==
  /\ At(t, "storeTokens", "cont")
  /\ IF Thrown(Top(t).ret)
     THEN /\ stack' = [stack EXCEPT ![t] = RetTo(@, Top(t).ret)]
          /\ UNCHANGED tokenCache
     ELSE /\ tokenCache' = Top(t).rec
          /\ stack' = [stack EXCEPT ![t] = RetTo(@, VoidVal)]
  /\ UNCHANGED << now, store, refreshPromise, call, cause,
                  persisted, fetchCount, nCalls, last, seed, ext >>

----------------------------------------------------------------------------
(* TokenManager.refreshToken, _doRefresh *)

\* _doRefresh() up to its first await: getRefreshToken() reads the store
doRefreshStart ==
  getRefreshToken(<< Frame("_doRefresh", "afterGRT"), Frame("promise", "settled") >>,
                  "afterGRT")

FreeTask(p) == /\ p \in RefreshTasks
               /\ stack[p] = << >>
               /\ \A q \in RefreshTasks : q < p => stack[q] # << >>

\* refreshToken() without the check of the pending handle
refreshToken_NoLock(t, stk, retPc, cl) ==
  \E p \in RefreshTasks :
    /\ FreeTask(p)
    /\ stack' = [stack EXCEPT
                   ![t] = Enter(stk, retPc, [Frame("refreshToken", "await")
                                               EXCEPT !.p = p]),
                   ![p] = doRefreshStart]
    /\ refreshPromise' = p
    /\ call' = [cl EXCEPT ![t].seen = refreshPromise,
                          ![t].seenSettled = IF refreshPromise = 0 THEN FALSE
                                             ELSE Settled(refreshPromise),
                          ![t].awaited = p]

\* the call of refreshToken() by task t, whose frames are stk; cl is call
\* with what the calling step recorded.  A pending handle is returned as
\* it is; otherwise _doRefresh() is started and awaited.
refreshToken(t, stk, retPc, cl) ==
  IF refreshPromise # 0
  THEN /\ stack' = [stack EXCEPT ![t] =
                      Enter(stk, retPc, [Frame("refreshToken", "returned")
                                           EXCEPT !.p = refreshPromise])]
       /\ call' = [cl EXCEPT ![t].seen = refreshPromise,
                             ![t].seenSettled = Settled(refreshPromise),
                             ![t].awaited = refreshPromise]
       /\ UNCHANGED refreshPromise
  ELSE \E p \in RefreshTasks :
         /\ FreeTask(p)
         /\ stack' = [stack EXCEPT
                        ![t] = Enter(stk, retPc, [Frame("refreshToken", "await")
                                                    EXCEPT !.p = p]),
                        ![p] = doRefreshStart]
         /\ refreshPromise' = p
         /\ call' = [cl EXCEPT ![t].seen = 0, ![t].seenSettled = FALSE,
                               ![t].awaited = p]

\* the handle cleared after a successful refresh only
RT_await_KeepOnFailure(t) ==
  /\ At(t, "refreshToken", "await")
  /\ Settled(Top(t).p)
  /\ refreshPromise' = IF Outcome(Top(t).p).b THEN 0 ELSE refreshPromise
  /\ stack' = [stack EXCEPT ![t] = RetTo(@, Outcome(Top(t).p))]
  /\ UNCHANGED << now, store, tokenCache, call, cause,
                  persisted, fetchCount, nCalls, last, seed, ext >>

\* try { return await this.refreshPromise } finally { this.refreshPromise = null }
RT_await(t) ==
  /\ At(t, "refreshToken", "await")
  /\ Settled(Top(t).p)
  /\ refreshPromise' = 0
  /\ stack' = [stack EXCEPT ![t] = RetTo(@, Outcome(Top(t).p))]
  /\ UNCHANGED << now, store, tokenCache, call, cause,
                  persisted, fetchCount, nCalls, last, seed, ext >>

\* a waiting caller that reports success whatever the refresh gave
RT_returned_AssumeSuccess(t) ==
  /\ At(t, "refreshToken", "returned")
  /\ Settled(Top(t).p)
  /\ stack' = [stack EXCEPT ![t] = RetTo(@, BoolVal(TRUE))]
  /\ UNCHANGED << now, store, tokenCache, refreshPromise, call, cause,
                  persisted, fetchCount, nCalls, last, seed, ext >>

\* a caller that was handed the pending promise settles with it
RT_returned(t) ==
  /\ At(t, "refreshToken", "returned")
  /\ Settled(Top(t).p)
  /\ stack' = [stack EXCEPT ![t] = RetTo(@, Outcome(Top(t).p))]
  /\ UNCHANGED << now, store, tokenCache, refreshPromise, call, cause,
                  persisted, fetchCount, nCalls, last, seed, ext >>

\* const refreshToken = await this.getRefreshToken(); if (!refreshToken)
\* return false; otherwise the POST to the refresh endpoint is sent
DR_afterGRT(t) ==
  /\ At(t, "_doRefresh", "afterGRT")
  /\ IF Top(t).ret.tok = UNDEF
     THEN /\ stack' = [stack EXCEPT ![t] = RetTo(@, BoolVal(FALSE))]
          /\ cause' = [cause EXCEPT ![t] = "noRefreshToken"]
          /\ UNCHANGED fetchCount
     ELSE /\ stack' = [stack EXCEPT ![t] =
                         Enter(@, "afterFetch", Frame("fetch", "refresh"))]
          /\ fetchCount' = fetchCount + 1
          /\ UNCHANGED cause
  /\ UNCHANGED << now, store, tokenCache, refreshPromise, call,
                  persisted, nCalls, last, seed, ext >>

\* the token endpoint answers 2xx, answers another status, or fetch rejects
FetchRefresh(t) ==
  /\ At(t, "fetch", "refresh")
  /\ \E r \in {"ok", "notOk", "reject"} :
       stack' = [stack EXCEPT ![t] =
                   RetTo(@, IF r = "reject" THEN Throw("fetch failed")
                            ELSE BoolVal(r = "ok"))]
  /\ UNCHANGED << now, store, tokenCache, refreshPromise, call, cause,
                  persisted, fetchCount, nCalls, last, seed, ext >>

\* if (!response.ok) return false; const tokens = await response.json()
DR_afterFetch(t) ==
  /\ At(t, "_doRefresh", "afterFetch")
  /\ IF Thrown(Top(t).ret)
     THEN /\ stack' = [stack EXCEPT ![t] = RetTo(@, BoolVal(FALSE))]
          /\ cause' = [cause EXCEPT ![t] = "fetchThrew"]
     ELSE IF ~ Top(t).ret.b
     THEN /\ stack' = [stack EXCEPT ![t] = RetTo(@, BoolVal(FALSE))]
          /\ cause' = [cause EXCEPT ![t] = "notOk"]
     ELSE /\ stack' = [stack EXCEPT ![t] =
                         Enter(@, "afterJson", Frame("response.json", "await"))]
          /\ UNCHANGED cause
  /\ UNCHANGED << now, store, tokenCache, refreshPromise, call,
                  persisted, fetchCount, nCalls, last, seed, ext >>

\* the body parses to one of RefreshBodies, or json() throws
ResponseJson(t) ==
  /\ At(t, "response.json", "await")
  /\ \E i \in 0 .. Len(RefreshBodies) :
       stack' = [stack EXCEPT ![t] =
                   IF i = 0 THEN RetTo(@, Throw("invalid json")) ELSE RetBody(@, i)]
  /\ UNCHANGED << now, store, tokenCache, refreshPromise, call, cause,
                  persisted, fetchCount, nCalls, last, seed, ext >>

\* await this.storeTokens(tokens), with the parsed body as it is
DR_afterJson(t) ==
  /\ At(t, "_doRefresh", "afterJson")
  /\ IF Thrown(Top(t).ret)
     THEN /\ stack' = [stack EXCEPT ![t] = RetTo(@, BoolVal(FALSE))]
          /\ cause' = [cause EXCEPT ![t] = "jsonThrew"]
     ELSE /\ stack' = [stack EXCEPT ![t] =
                         storeTokens(@, "afterST", RefreshBodies[Top(t).p])]
          /\ UNCHANGED cause
  /\ UNCHANGED << now, store, tokenCache, refreshPromise, call,
                  persisted, fetchCount, nCalls, last, seed, ext >>

\* storeTokens awaited outside the try block
DR_afterST_Rethrow(t) ==
  /\ At(t, "_doRefresh", "afterST")
  /\ IF Thrown(Top(t).ret)
     THEN /\ stack' = [stack EXCEPT ![t] = RetTo(@, Top(t).ret)]
          /\ cause' = [cause EXCEPT ![t] = "storeThrew"]
     ELSE /\ stack' = [stack EXCEPT ![t] = RetTo(@, BoolVal(TRUE))]
          /\ cause' = [cause EXCEPT ![t] = "stored"]
  /\ UNCHANGED << now, store, tokenCache, refreshPromise, call,
                  persisted, fetchCount, nCalls, last, seed, ext >>

\* return true; a throw of storeTokens is caught: return false
DR_afterST(t) ==
  /\ At(t, "_doRefresh", "afterST")
  /\ IF Thrown(Top(t).ret)
     THEN /\ stack' = [stack EXCEPT ![t] = RetTo(@, BoolVal(FALSE))]
          /\ cause' = [cause EXCEPT ![t] = "storeThrew"]
     ELSE /\ stack' = [stack EXCEPT ![t] = RetTo(@, BoolVal(TRUE))]
          /\ cause' = [cause EXCEPT ![t] = "stored"]
  /\ UNCHANGED << now, store, tokenCache, refreshPromise, call,
                  persisted, fetchCount, nCalls, last, seed, ext >>

----------------------------------------------------------------------------
(* OAuthAuthStrategy.ensureAuthenticated, getAuthHeaders *)

ensureAuthenticated(stk, retPc) ==
  hasValidToken(Enter(stk, retPc, Frame("ensureAuthenticated", "afterHV")), "afterHV")

\* if (!await this.tokenManager.hasValidToken()) refreshed = await refreshToken()
EA_afterHV(t) ==
  /\ At(t, "ensureAuthenticated", "afterHV")
  /\ IF Top(t).ret.b
     THEN /\ stack' = [stack EXCEPT ![t] = RetTo(@, VoidVal)]
          /\ call' = [call EXCEPT ![t].hv = "true"]
          /\ UNCHANGED refreshPromise
     ELSE refreshToken(t, stack[t], "afterRT", [call EXCEPT ![t].hv = "false"])
  /\ UNCHANGED << now, store, tokenCache, cause,
                  persisted, fetchCount, nCalls, last, seed, ext >>

\* the result of refreshToken() not looked at
EA_afterRT_IgnoreResult(t) ==
  /\ At(t, "ensureAuthenticated", "afterRT")
  /\ LET r == Top(t).ret IN
       /\ stack' = [stack EXCEPT ![t] = RetTo(@, IF Thrown(r) THEN r ELSE VoidVal)]
       /\ call' = [call EXCEPT ![t].rf = IF Thrown(r) THEN "thrown"
                                         ELSE IF r.b THEN "true" ELSE "false"]
  /\ UNCHANGED << now, store, tokenCache, refreshPromise, cause,
                  persisted, fetchCount, nCalls, last, seed, ext >>

\* if (!refreshed) throw new Error('OAuth token expired and could not be refreshed ...')
EA_afterRT(t) ==
  /\ At(t, "ensureAuthenticated", "afterRT")
  /\ LET r == Top(t).ret IN
       /\ stack' = [stack EXCEPT ![t] =
                      RetTo(@, IF Thrown(r) THEN r
                               ELSE IF ~ r.b THEN Throw(ErrTokenExpired)
                               ELSE VoidVal)]
       /\ call' = [call EXCEPT ![t].rf = IF Thrown(r) THEN "thrown"
                                         ELSE IF r.b THEN "true" ELSE "false"]
  /\ UNCHANGED << now, store, tokenCache, refreshPromise, cause,
                  persisted, fetchCount, nCalls, last, seed, ext >>

getAuthHeaders(stk, retPc) ==
  ensureAuthenticated(Enter(stk, retPc, Frame("getAuthHeaders", "afterEA")), "afterEA")

\* await this.ensureAuthenticated(); const token = await getAccessToken()
GAH_afterEA(t) ==
  /\ At(t, "getAuthHeaders", "afterEA")
  /\ stack' = [stack EXCEPT ![t] =
                 IF Thrown(Top(t).ret) THEN RetTo(@, Top(t).ret)
                 ELSE getAccessToken(@, "afterGA")]
  /\ UNCHANGED << now, store, tokenCache, refreshPromise, call, cause,
                  persisted, fetchCount, nCalls, last, seed, ext >>

\* if (!token) throw new Error('No valid OAuth token available ...');
\* return { Authorization: `Bearer ${token}` }
GAH_afterGA(t) ==
  /\ At(t, "getAuthHeaders", "afterGA")
  /\ LET token == Top(t).ret.tok IN
       stack' = [stack EXCEPT ![t] =
                   RetTo(@, IF token = UNDEF THEN Throw(ErrNoToken)
                            ELSE Val("ok", FALSE, token, TRUE))]
  /\ UNCHANGED << now, store, tokenCache, refreshPromise, call, cause,
                  persisted, fetchCount, nCalls, last, seed, ext >>

----------------------------------------------------------------------------
(* TokenManager.revokeToken *)

revokeToken(stk, retPc, ep) ==
  getAccessToken(Enter(stk, retPc, [Frame("revokeToken", "afterGA") EXCEPT !.ep = ep]),
                 "afterGA")

\* if (revokeEndpoint && accessToken) the POST is sent, otherwise the
\* record is deleted at once
RV_afterGA(t) ==
  /\ At(t, "revokeToken", "afterGA")
  /\ IF Top(t).ep /\ Top(t).ret.tok # UNDEF
     THEN /\ stack' = [stack EXCEPT ![t] =
                         Enter(@, "afterFetch", Frame("fetch", "revoke"))]
          /\ call' = [call EXCEPT ![t].tok = Top(t).ret.tok, ![t].sent = TRUE]
     ELSE /\ stack' = [stack EXCEPT ![t] =
                         Enter(@, "cont", Frame("credentialStore.delete", "await"))]
          /\ call' = [call EXCEPT ![t].tok = Top(t).ret.tok]
  /\ UNCHANGED << now, store, tokenCache, refreshPromise, cause,
                  persisted, fetchCount, nCalls, last, seed, ext >>

\* the revocation endpoint answers with some status, or fetch rejects
FetchRevoke(t) ==
  /\ At(t, "fetch", "revoke")
  /\ \E r \in {"ok", "notOk", "reject"} :
       /\ stack' = [stack EXCEPT ![t] =
                      RetTo(@, IF r = "reject" THEN Throw("fetch failed")
                               ELSE BoolVal(r = "ok"))]
       /\ call' = [call EXCEPT ![t].resp = r]
  /\ UNCHANGED << now, store, tokenCache, refreshPromise, cause,
                  persisted, fetchCount, nCalls, last, seed, ext >>

\* the POST to the revocation endpoint without try/catch
RV_afterFetch_Propagate(t) ==
  /\ At(t, "revokeToken", "afterFetch")
  /\ stack' = [stack EXCEPT ![t] =
                 IF Thrown(Top(t).ret) THEN RetTo(@, Top(t).ret)
                 ELSE Enter(@, "cont", Frame("credentialStore.delete", "await"))]
  /\ UNCHANGED << now, store, tokenCache, refreshPromise, call, cause,
                  persisted, fetchCount, nCalls, last, seed, ext >>

\* the response is not looked at and a rejection is caught; then
\* await this.credentialStore.delete(...)
RV_afterFetch(t) ==
  /\ At(t, "revokeToken", "afterFetch")
  /\ stack' = [stack EXCEPT ![t] =
                 Enter(@, "cont", Frame("credentialStore.delete", "await"))]
  /\ UNCHANGED << now, store, tokenCache, refreshPromise, call, cause,
                  persisted, fetchCount, nCalls, last, seed, ext >>

\* this.tokenCache = null
RV_cont(t) ==
  /\ At(t, "revokeToken", "cont")
  /\ tokenCache' = NullRec
  /\ stack' = [stack EXCEPT ![t] = RetTo(@, VoidVal)]
  /\ UNCHANGED << now, store, refreshPromise, call, cause,
                  persisted, fetchCount, nCalls, last, seed, ext >>

----------------------------------------------------------------------------
(* TokenManager.getTokenInfo *)

getTokenInfo(stk, retPc) ==
  Enter(Enter(stk, retPc, Frame("getTokenInfo", "cont")),
        "cont", Frame("credentialStore.get", "await"))

\* if (!stored) return null; ... isValid: await this.hasValidToken()
TI_cont(t) ==
  /\ At(t, "getTokenInfo", "cont")
  /\ stack' = [stack EXCEPT ![t] =
                 IF ~ Top(t).rec.present
                 THEN RetTo(@, Val("ok", FALSE, "null", FALSE))
                 ELSE hasValidToken(@, "afterHV")]
  /\ UNCHANGED << now, store, tokenCache, refreshPromise, call, cause,
                  persisted, fetchCount, nCalls, last, seed, ext >>

\* { hasToken: !!stored.accessToken, ..., isValid }
TI_afterHV(t) ==
  /\ At(t, "getTokenInfo", "afterHV")
  /\ stack' = [stack EXCEPT ![t] =
                 RetTo(@, Val("ok", Top(t).ret.b, "info",
                              Top(t).rec.accessToken # UNDEF))]
  /\ UNCHANGED << now, store, tokenCache, refreshPromise, call, cause,
                  persisted, fetchCount, nCalls, last, seed, ext >>

----------------------------------------------------------------------------
(* Top-level calls *)

\* the callers are alike: a caller makes its first call after those before it
CanCall(c) ==
  /\ ~ Running(c)
  /\ nCalls < MaxCalls
  /\ \A d \in Callers : d < c => call[d].op # "none"

\* the stored token is unexpired and expires within the refresh threshold
NearExpiry(s, t) ==
  /\ s.accessToken # UNDEF
  /\ s.expiresAt # Absent
  /\ getTime(s.expiresAt) > t
  /\ getTime(s.expiresAt) - t < refreshThreshold

Expired(s, t) ==
  /\ s.accessToken # UNDEF
  /\ s.expiresAt # Absent
  /\ getTime(s.expiresAt) <= t

\* what is recorded of a top-level call when it is made
NewCall(c, op) ==
  [call EXCEPT ![c] = [NoCall EXCEPT
     !.op = op,
     !.solo = \A u \in Tasks \ {c} : ~ Running(u),
     !.near = NearExpiry(store, now),
     !.expired = Expired(store, now),
     !.rt = store.refreshToken # UNDEF]]

Idle == << [Frame("caller", "idle") EXCEPT !.pc = "called"] >>

CallGetAccessToken(c) ==
  /\ CanCall(c)
  /\ stack' = [stack EXCEPT ![c] = getAccessToken(Idle, "done")]
  /\ call' = NewCall(c, "getAccessToken")
  /\ nCalls' = nCalls + 1 /\ last' = c
  /\ UNCHANGED << now, store, tokenCache, refreshPromise, cause,
                  persisted, fetchCount, seed, ext >>

CallHasValidToken(c) ==
  /\ CanCall(c)
  /\ stack' = [stack EXCEPT ![c] = hasValidToken(Idle, "done")]
  /\ call' = NewCall(c, "hasValidToken")
  /\ nCalls' = nCalls + 1 /\ last' = c
  /\ UNCHANGED << now, store, tokenCache, refreshPromise, cause,
                  persisted, fetchCount, seed, ext >>

CallNeedsRefresh(c) ==
  /\ CanCall(c)
  /\ stack' = [stack EXCEPT ![c] = needsRefresh(Idle, "done")]
  /\ call' = NewCall(c, "needsRefresh")
  /\ nCalls' = nCalls + 1 /\ last' = c
  /\ UNCHANGED << now, store, tokenCache, refreshPromise, cause,
                  persisted, fetchCount, seed, ext >>

CallStoreTokens(c) ==
  /\ CanCall(c)
  /\ \E i \in 1 .. Len(LoginTokens) :
       stack' = [stack EXCEPT ![c] = storeTokens(Idle, "done", LoginTokens[i])]
  /\ call' = NewCall(c, "storeTokens")
  /\ nCalls' = nCalls + 1 /\ last' = c
  /\ UNCHANGED << now, store, tokenCache, refreshPromise, cause,
                  persisted, fetchCount, seed, ext >>

CallRefreshToken(c) ==
  /\ CanCall(c)
  /\ refreshToken(c, Idle, "done", NewCall(c, "refreshToken"))
  /\ nCalls' = nCalls + 1 /\ last' = c
  /\ UNCHANGED << now, store, tokenCache, cause,
                  persisted, fetchCount, seed, ext >>

CallRevokeToken(c) ==
  /\ CanCall(c)
  /\ \E ep \in BOOLEAN :
       /\ stack' = [stack EXCEPT ![c] = revokeToken(Idle, "done", ep)]
       /\ call' = [NewCall(c, "revokeToken") EXCEPT ![c].ep = ep]
  /\ nCalls' = nCalls + 1 /\ last' = c
  /\ UNCHANGED << now, store, tokenCache, refreshPromise, cause,
                  persisted, fetchCount, seed, ext >>

CallGetTokenInfo(c) ==
  /\ CanCall(c)
  /\ stack' = [stack EXCEPT ![c] = getTokenInfo(Idle, "done")]
  /\ call' = NewCall(c, "getTokenInfo")
  /\ nCalls' = nCalls + 1 /\ last' = c
  /\ UNCHANGED << now, store, tokenCache, refreshPromise, cause,
                  persisted, fetchCount, seed, ext >>

CallGetAuthHeaders(c) ==
  /\ CanCall(c)
  /\ stack' = [stack EXCEPT ![c] = getAuthHeaders(Idle, "done")]
  /\ call' = NewCall(c, "getAuthHeaders")
  /\ nCalls' = nCalls + 1 /\ last' = c
  /\ UNCHANGED << now, store, tokenCache, refreshPromise, cause,
                  persisted, fetchCount, seed, ext >>

\* time passes
Tick ==
  /\ now < StartTime + MaxTicks * TickMs
  /\ now' = now + TickMs
  /\ UNCHANGED << store, tokenCache, refreshPromise, stack, call, cause,
                  persisted, fetchCount, nCalls, last, seed, ext >>

----------------------------------------------------------------------------

Next ==
  \/ \E c \in Callers : CallGetAccessToken(c)
  \/ \E c \in Callers : CallHasValidToken(c)
  \/ \E c \in Callers : CallNeedsRefresh(c)
  \/ \E c \in Callers : CallStoreTokens(c)
  \/ \E c \in Callers : CallRefreshToken(c)
  \/ \E c \in Callers : CallRevokeToken(c)
  \/ \E c \in Callers : CallGetTokenInfo(c)
  \/ \E c \in Callers : CallGetAuthHeaders(c)
  \/ \E t \in Tasks : CredentialStoreGet(t)
  \/ \E t \in Tasks : CredentialStoreSet(t)
  \/ \E t \in Callers : CredentialStoreDelete(t)
  \/ \E t \in Callers : GA_cont(t)
  \/ \E t \in RefreshTasks : GRT_cont(t)
  \/ \E t \in Callers : HV_afterGA(t)
  \/ \E t \in Callers : HV_cont(t)
  \/ \E t \in Callers : NR_cont(t)
  \/ \E t \in Tasks : ST_cont(t)
  \/ \E t \in Callers : RT_await(t)
  \/ \E t \in Callers : RT_returned(t)
  \/ \E t \in RefreshTasks : DR_afterGRT(t)
  \/ \E t \in RefreshTasks : FetchRefresh(t)
  \/ \E t \in RefreshTasks : DR_afterFetch(t)
  \/ \E t \in RefreshTasks : ResponseJson(t)
  \/ \E t \in RefreshTasks : DR_afterJson(t)
  \/ \E t \in RefreshTasks : DR_afterST(t)
  \/ \E t \in Callers : EA_afterHV(t)
  \/ \E t \in Callers : EA_afterRT(t)
  \/ \E t \in Callers : GAH_afterEA(t)
  \/ \E t \in Callers : GAH_afterGA(t)
  \/ \E t \in Callers : RV_afterGA(t)
  \/ \E t \in Callers : FetchRevoke(t)
  \/ \E t \in Callers : RV_afterFetch(t)
  \/ \E t \in Callers : RV_cont(t)
  \/ \E t \in Callers : TI_cont(t)
  \/ \E t \in Callers : TI_afterHV(t)
  \/ Tick

Spec == Init /\ [][Next]_vars

----------------------------------------------------------------------------
(* CredentialStore (credential-store, in lib/auth/oauth-flows.mjs) on the  *)
(* keychain and on the encrypted file.  Every instance may live in a       *)
(* process of its own, so each access to the keychain and each read and    *)
(* write of the file is a step.                                            *)

tmVars == << now, store, tokenCache, refreshPromise, stack, call, cause,
             persisted, fetchCount, nCalls, last, seed >>

\* the TokenManager of a behaviour that does not use it
TokenManagerUnused ==
  /\ now = StartTime
  /\ store = NullRec
  /\ seed = NullRec
  /\ tokenCache = NullRec
  /\ refreshPromise = 0
  /\ stack = [t \in Tasks |-> IF t \in Callers THEN << Frame("caller", "idle") >> ELSE << >>]
  /\ call = [c \in Callers |-> NoCall]
  /\ cause = [p \in RefreshTasks |-> "none"]
  /\ persisted = {}
  /\ fetchCount = 0
  /\ nCalls = 0
  /\ last = 0

\* records as storeTokens builds them
StoreRecs == { StoreData(LoginTokens[1], StartTime), StoreData(LoginTokens[2], StartTime) }

\* require('keytar') in an ES module: a ReferenceError where the runtime
\* defines no require, an error where keytar is not installed
_checkKeytar == env.req /\ env.keytar

\* _getEncryptionKey() throws where require is not defined
CanDeriveKey == env.req

_encrypt(data, iv) ==
  [st |-> "blob", key |-> MachineKey, iv |-> iv, data |-> JSON_stringify(data)]

\* JSON.parse(content) and _decrypt succeed
Decryptable(f) == CanDeriveKey /\ f.st = "blob" /\ f.key = MachineKey
_decrypt(f)    == JSON_parse(f.data)

existsSync(f) == f.st # "missing"

\* a file this program wrote, with one record or none
OwnFile(s, r) == _encrypt([EmptyData EXCEPT ![s] = r], "iv1")
ForeignFile   == [OwnFile("git-super-a", StoreData(LoginTokens[1], StartTime))
                    EXCEPT !.key = ForeignKey]

InitStore ==
  /\ TokenManagerUnused
  /\ PollUnused
  /\ CliUnused
  /\ env \in [req : BOOLEAN, keytar : BOOLEAN]
  /\ cs = [i \in Insts |-> [built |-> i = 1, keytarAvailable |-> i = 1 /\ _checkKeytar]]
  /\ file \in {NoFile, GarbageFile, ForeignFile} \cup
              (IF env.req
               THEN {OwnFile("git-super-a", StoreData(LoginTokens[1], StartTime))}
               ELSE {})
  /\ keychain \in {[s \in Services |-> NoEntry]} \cup
                  (IF _checkKeytar
                   THEN {[s \in Services |->
                            IF s = "git-super-a"
                            THEN JSON_stringify(StoreData(LoginTokens[1], StartTime))
                            ELSE NoEntry]}
                   ELSE {})
  /\ sop = [i \in Insts |-> NoOp]
  /\ hist = << >>

Busy(i) == sop[i].op # "none"

\* new CredentialStore()
Construct(i) ==
  /\ ~ cs[i].built
  /\ \A j \in Insts : j < i => cs[j].built
  /\ cs' = [cs EXCEPT ![i] = [built |-> TRUE, keytarAvailable |-> _checkKeytar]]
  /\ UNCHANGED << tmVars, env, keychain, file, sop, hist, poll, cli >>

\* the operation of instance i has returned res or has raised
Complete(i, res, raised, fault, readFile, f) ==
  /\ hist' = Append(hist,
       [op |-> sop[i].op, svc |-> sop[i].svc, rec |-> sop[i].rec, i |-> i,
        res |-> res, raised |-> raised, solo |-> sop[i].solo,
        fault |-> fault, readFile |-> readFile,
        keytarAvailable |-> cs[i].keytarAvailable,
        unreadable |-> existsSync(file) /\ ~ Decryptable(file),
        inKeychain |-> sop[i].k0 # NoEntry,
        sameFile |-> f = sop[i].f0])
  /\ sop' = [sop EXCEPT ![i] = NoOp]

\* get(service), set(service, data), delete(service) are called: with
\* keytar the keychain is asked first, otherwise the file is used
StoreCall(i, op, s, r) ==
  /\ cs[i].built
  /\ ~ Busy(i)
  /\ Len(hist) + Cardinality({j \in Insts : Busy(j)}) < MaxStoreOps
  /\ sop' = [j \in Insts |->
       IF j = i
       THEN [NoOp EXCEPT !.op = op, !.svc = s, !.rec = r,
                         !.pc = IF cs[i].keytarAvailable THEN "keytar" ELSE "fileRead",
                         !.solo = \A k \in Insts \ {i} : ~ Busy(k),
                         !.f0 = file, !.k0 = keychain[s]]
       ELSE [sop[j] EXCEPT !.solo = FALSE]]
  /\ UNCHANGED << tmVars, env, cs, keychain, file, hist, poll, cli >>

CallGet(i)    == \E s \in Services : StoreCall(i, "get", s, NullRec)
CallSet(i)    == \E s \in Services : \E r \in StoreRecs : StoreCall(i, "set", s, r)
CallDelete(i) == \E s \in Services : StoreCall(i, "delete", s, NullRec)

\* await keytar.getPassword(service, 'default'): the entry (or null) is
\* returned; when the call throws, the file is read instead
KeytarGet(i) ==
  /\ sop[i].op = "get" /\ sop[i].pc = "keytar"
  /\ \E ok \in BOOLEAN :
       IF ok
       THEN LET data == keychain[sop[i].svc] IN
              Complete(i, IF data # NoEntry THEN JSON_parse(data) ELSE NullRec,
                       FALSE, FALSE, FALSE, file)
       ELSE /\ sop' = [sop EXCEPT ![i].pc = "fileRead", ![i].fault = TRUE]
            /\ UNCHANGED hist
  /\ UNCHANGED << tmVars, env, cs, keychain, file, poll, cli >>

\* await keytar.setPassword(service, 'default', JSON.stringify(data)); return
KeytarSet(i) ==
  /\ sop[i].op = "set" /\ sop[i].pc = "keytar"
  /\ \E ok \in BOOLEAN :
       IF ok
       THEN /\ keychain' = [keychain EXCEPT ![sop[i].svc] = JSON_stringify(sop[i].rec)]
            /\ Complete(i, NullRec, FALSE, FALSE, FALSE, file)
       ELSE /\ sop' = [sop EXCEPT ![i].pc = "fileRead", ![i].fault = TRUE]
            /\ UNCHANGED << keychain, hist >>
  /\ UNCHANGED << tmVars, env, cs, file, poll, cli >>

\* await keytar.deletePassword(service, 'default'); a throw is logged; the
\* file is gone through next in both cases
KeytarDelete(i) ==
  /\ sop[i].op = "delete" /\ sop[i].pc = "keytar"
  /\ \E ok \in BOOLEAN :
       IF ok
       THEN /\ keychain' = [keychain EXCEPT ![sop[i].svc] = NoEntry]
            /\ sop' = [sop EXCEPT ![i].pc = "fileRead"]
       ELSE /\ sop' = [sop EXCEPT ![i].pc = "fileRead", ![i].fault = TRUE]
            /\ UNCHANGED keychain
  /\ UNCHANGED << tmVars, env, cs, file, hist, poll, cli >>

\* FileRead with _getFromFile lacking its try / catch: an unreadable file
\* makes get raise
FileRead_NoCatch(i) ==
  /\ sop[i].pc = "fileRead"
  /\ LET op == sop[i].op
         s  == sop[i].svc IN
       \/ /\ op = "get"
          /\ IF existsSync(file) /\ ~ Decryptable(file)
             THEN Complete(i, NullRec, TRUE, sop[i].fault, TRUE, file)
             ELSE Complete(i, IF existsSync(file) THEN _decrypt(file)[s] ELSE NullRec,
                           FALSE, sop[i].fault, TRUE, file)
       \/ /\ op = "set"
          /\ sop' = [sop EXCEPT ![i].pc = "fileWrite", ![i].readFile = TRUE,
                                ![i].allData =
                                  [(IF existsSync(file) /\ Decryptable(file)
                                    THEN _decrypt(file) ELSE EmptyData)
                                     EXCEPT ![s] = sop[i].rec]]
          /\ UNCHANGED hist
       \/ /\ op = "delete"
          /\ IF existsSync(file) /\ Decryptable(file)
             THEN /\ sop' = [sop EXCEPT ![i].pc = "fileWrite", ![i].readFile = TRUE,
                                        ![i].allData = [_decrypt(file) EXCEPT ![s] = NullRec]]
                  /\ UNCHANGED hist
             ELSE Complete(i, NullRec, FALSE, sop[i].fault, existsSync(file), file)
  /\ UNCHANGED << tmVars, env, cs, keychain, file, poll, cli >>

\* FileRead with _setInFile starting from {} instead of the file's content
FileRead_FreshData(i) ==
  /\ sop[i].pc = "fileRead"
  /\ LET op == sop[i].op
         s  == sop[i].svc IN
       \/ /\ op = "get"
          /\ Complete(i, IF existsSync(file) /\ Decryptable(file)
                         THEN _decrypt(file)[s] ELSE NullRec,
                      FALSE, sop[i].fault, TRUE, file)
       \/ /\ op = "set"
          /\ sop' = [sop EXCEPT ![i].pc = "fileWrite", ![i].readFile = TRUE,
                                ![i].allData = [EmptyData EXCEPT ![s] = sop[i].rec]]
          /\ UNCHANGED hist
       \/ /\ op = "delete"
          /\ IF existsSync(file) /\ Decryptable(file)
             THEN /\ sop' = [sop EXCEPT ![i].pc = "fileWrite", ![i].readFile = TRUE,
                                        ![i].allData = [_decrypt(file) EXCEPT ![s] = NullRec]]
                  /\ UNCHANGED hist
             ELSE Complete(i, NullRec, FALSE, sop[i].fault, existsSync(file), file)
  /\ UNCHANGED << tmVars, env, cs, keychain, file, poll, cli >>

\* the reading half of _getFromFile, _setInFile, _deleteFromFile:
\* existsSync, readFileSync, JSON.parse, _decrypt
FileRead(i) ==
  /\ sop[i].pc = "fileRead"
  /\ LET op == sop[i].op
         s  == sop[i].svc IN
       \/ /\ op = "get"
          \* allData[service] || null; null for no file and for every error
          /\ Complete(i, IF existsSync(file) /\ Decryptable(file)
                         THEN _decrypt(file)[s] ELSE NullRec,
                      FALSE, sop[i].fault, TRUE, file)
       \/ /\ op = "set"
          \* allData = {} unless the file is there and readable
          /\ sop' = [sop EXCEPT ![i].pc = "fileWrite", ![i].readFile = TRUE,
                                ![i].allData =
                                  [(IF existsSync(file) /\ Decryptable(file)
                                    THEN _decrypt(file) ELSE EmptyData)
                                     EXCEPT ![s] = sop[i].rec]]
          /\ UNCHANGED hist
       \/ /\ op = "delete"
          /\ IF existsSync(file) /\ Decryptable(file)
             THEN /\ sop' = [sop EXCEPT ![i].pc = "fileWrite", ![i].readFile = TRUE,
                                        ![i].allData = [_decrypt(file) EXCEPT ![s] = NullRec]]
                  /\ UNCHANGED hist
             \* no file: return; an error: logged
             ELSE Complete(i, NullRec, FALSE, sop[i].fault, existsSync(file), file)
  /\ UNCHANGED << tmVars, env, cs, keychain, file, poll, cli >>

\* the writing half of _setInFile and _deleteFromFile: _encrypt(allData),
\* writeFileSync; set raises what _encrypt throws
FileWrite(i) ==
  /\ sop[i].pc = "fileWrite"
  /\ IF CanDeriveKey
     THEN \E iv \in IVs :
            /\ iv # file.iv
            /\ file' = _encrypt(sop[i].allData, iv)
            /\ Complete(i, NullRec, FALSE, sop[i].fault, TRUE, file')
     ELSE /\ Complete(i, NullRec, TRUE, sop[i].fault, TRUE, file)
          /\ UNCHANGED file
  /\ UNCHANGED << tmVars, env, cs, keychain, poll, cli >>

NextStore ==
  \/ \E i \in Insts : Construct(i)
  \/ \E i \in Insts : CallGet(i)
  \/ \E i \in Insts : CallSet(i)
  \/ \E i \in Insts : CallDelete(i)
  \/ \E i \in Insts : KeytarGet(i)
  \/ \E i \in Insts : KeytarSet(i)
  \/ \E i \in Insts : KeytarDelete(i)
  \/ \E i \in Insts : FileRead(i)
  \/ \E i \in Insts : FileWrite(i)

SpecStore == InitStore /\ [][NextStore]_vars

----------------------------------------------------------------------------
(* DeviceCodeFlow.pollForToken (lib/auth/oauth-flows.mjs)                  *)

storeVars == << env, cs, keychain, file, sop, hist >>

\* error.message.includes(part): a message is the sequence of its parts
includes(msg, part) == \E k \in 1 .. Len(msg) : msg[k] = part

MsgExpired == << "Device code ", "expired", ". Please try again." >>
MsgDenied  == << "User ", "denied", " authorization." >>
MsgAuthorizationError(error) == << "Authorization error", ": ", error, " - " >>
MsgTimeout == << "Authorization timeout. Please try again." >>

\* message of a fetch that rejects (the global fetch of Node.js)
FetchErrors == { << "fetch failed" >> }
\* messages of a response.json() that throws: JSON.parse quotes the body
JsonErrors  == { << "Unexpected end of JSON input" >>,
                 << "Unexpected token 'A', \"Access ", "denied", "\" is not valid JSON" >> }

\* bodies the token endpoint answers a device-code request with
PollBodies ==
  << [error |-> "authorization_pending"],
     [error |-> "slow_down"],
     [error |-> "expired_token"],
     [error |-> "access_denied"],
     [error |-> "invalid_grant"],
     [access_token |-> "tok4", refresh_token |-> "ref4", expires_in |-> 3600,
      token_type |-> "Bearer", scope |-> "read write"],
     [access_token |-> "tok4", expires_in |-> 3600],
     [message |-> "Internal Server Error"] >>

\* pollForToken(deviceCode, interval): interval in seconds
Intervals == {1, 5}

InitPoll ==
  /\ TokenManagerUnused
  /\ StoreUnused
  /\ poll = PollIdle
  /\ CliUnused

\* the catch block rethrowing nothing
CatchRethrows_Never(msg) == FALSE

\* the catch block of the loop rethrows these errors and swallows the rest
CatchRethrows(msg) ==
  \/ includes(msg, "Authorization error")
  \/ includes(msg, "expired")
  \/ includes(msg, "denied")

\* slow_down handled as authorization_pending
HandleBody_SlowNoWait(data) ==
  LET error == Field(data, "error") IN
    IF error # UNDEF
    THEN IF error \in {"authorization_pending", "slow_down"}
         THEN [k |-> "continue", msg |-> << >>]
         ELSE IF error = "expired_token" THEN [k |-> "throw", msg |-> MsgExpired]
         ELSE IF error = "access_denied" THEN [k |-> "throw", msg |-> MsgDenied]
         ELSE [k |-> "throw", msg |-> MsgAuthorizationError(error)]
    ELSE [k |-> "return", msg |-> << >>]

\* what the try block does with the body of the response
HandleBody(data) ==
  LET error == Field(data, "error") IN
    IF error # UNDEF
    THEN IF error = "authorization_pending" THEN [k |-> "continue", msg |-> << >>]
         ELSE IF error = "slow_down" THEN [k |-> "slow", msg |-> << >>]
         ELSE IF error = "expired_token" THEN [k |-> "throw", msg |-> MsgExpired]
         ELSE IF error = "access_denied" THEN [k |-> "throw", msg |-> MsgDenied]
         ELSE [k |-> "throw", msg |-> MsgAuthorizationError(error)]
    ELSE [k |-> "return", msg |-> << >>]

PollThrow(p, msg) == [p EXCEPT !.pc = "done", !.st = "throw", !.msg = msg]

\* the loop going on without attempt++
Continue_NoCount(p) == [p EXCEPT !.pc = "sleep"]

\* continue, or the end of the loop body: attempt++, and the timeout error
\* once attempt reaches maxAttempts
Continue(p) ==
  IF p.attempt + 1 < maxAttempts
  THEN [p EXCEPT !.attempt = @ + 1, !.pc = "sleep"]
  ELSE PollThrow([p EXCEPT !.attempt = @ + 1], MsgTimeout)

\* catch (error): rethrow, or warn and go on with the next attempt
Catch(p, msg) ==
  IF CatchRethrows(msg)
  THEN PollThrow(p, msg)
  ELSE Continue([p EXCEPT !.prev = "transient", !.transient = TRUE])

PollCall ==
  /\ poll.pc = "idle"
  /\ \E interval \in Intervals :
       poll' = [poll EXCEPT !.pc = "sleep", !.pollInterval = interval * 1000]
  /\ UNCHANGED << tmVars, storeVars, cli >>

\* the timer of the loop fires and the token request is sent
PollTimer ==
  /\ poll.pc = "sleep"
  /\ poll' = [poll EXCEPT !.pc = "fetch",
                          !.requests = @ + 1,
                          !.gap = poll.elapsed + poll.pollInterval,
                          !.gapPrev = poll.prev,
                          !.elapsed = 0]
  /\ UNCHANGED << tmVars, storeVars, cli >>

\* await fetch(this.tokenEndpoint, ...) rejects or gives a response
PollFetch ==
  /\ poll.pc = "fetch"
  /\ \/ \E msg \in FetchErrors : poll' = Catch(poll, msg)
     \/ poll' = [poll EXCEPT !.pc = "json"]
  /\ UNCHANGED << tmVars, storeVars, cli >>

\* await response.json() throws or gives the body, which is acted upon
PollJson ==
  /\ poll.pc = "json"
  /\ \/ \E msg \in JsonErrors : poll' = Catch(poll, msg)
     \/ \E b \in 1 .. Len(PollBodies) :
          LET data == PollBodies[b]
              h    == HandleBody(data)
              p    == [poll EXCEPT !.body = b] IN
            poll' =
              IF h.k = "continue"
              THEN Continue([p EXCEPT !.prev = IF Field(data, "error") = "slow_down"
                                              THEN "slow" ELSE "pending",
                                      !.answered = @ + 1])
              ELSE IF h.k = "slow"
              THEN [p EXCEPT !.pc = "slowSleep", !.prev = "slow", !.answered = @ + 1]
              ELSE IF h.k = "throw"
              THEN Catch([p EXCEPT !.terminal = Field(data, "error"),
                                   !.atTerminal = poll.requests], h.msg)
              ELSE [p EXCEPT !.pc = "done", !.st = "ok",
                             !.accessToken = Field(data, "access_token"),
                             !.refreshToken = Field(data, "refresh_token"),
                             !.expiresIn = Field(data, "expires_in"),
                             !.tokenType = Field(data, "token_type"),
                             !.scope = Field(data, "scope")]
  /\ UNCHANGED << tmVars, storeVars, cli >>

\* the extra timer after slow_down fires
PollSlowTimer ==
  /\ poll.pc = "slowSleep"
  /\ poll' = Continue([poll EXCEPT !.elapsed = @ + poll.pollInterval])
  /\ UNCHANGED << tmVars, storeVars, cli >>

NextPoll ==
  \/ PollCall
  \/ PollTimer
  \/ PollFetch
  \/ PollJson
  \/ PollSlowTimer

SpecPoll == InitPoll /\ [][NextPoll]_vars

----------------------------------------------------------------------------
(* DeviceCodeFlow.initiate and execute (lib/auth/oauth-flows.mjs)          *)

MsgDeviceAuthFailed == << "Device authorization failed: ", "status" >>
MsgCallback         == << "onUserCode failed" >>

\* bodies the device authorization endpoint answers with
InitBodies ==
  << [device_code |-> "dev1", user_code |-> "ABCD-EFGH",
      verification_uri |-> "https://example.com/device",
      verification_uri_complete |-> "https://example.com/device?user_code=ABCD-EFGH",
      expires_in |-> 900, interval |-> 1],
     [device_code |-> "dev1", user_code |-> "ABCD-EFGH",
      verification_uri |-> "https://example.com/device",
      expires_in |-> 900] >>

\* nothing has been called yet
InitCli ==
  /\ TokenManagerUnused
  /\ StoreUnused
  /\ PollUnused
  /\ CliUnused

ExecThrow(e, msg) == [e EXCEPT !.pc = "done", !.st = "throw", !.msg = msg]

\* this.pollForToken(deviceAuth.deviceCode, deviceAuth.interval), up to the
\* first timer of its loop
ExecPoll(e) ==
  /\ exec' = [e EXCEPT !.pc = "poll"]
  /\ poll' = [poll EXCEPT !.pc = "sleep", !.pollInterval = e.interval * 1000]

\* execute() on a flow constructed with or without an onUserCode callback,
\* up to the fetch of initiate()
ExecuteCall ==
  /\ exec.pc = "idle"
  /\ \E cb \in BOOLEAN : exec' = [exec EXCEPT !.pc = "initFetch", !.onUserCode = cb]
  /\ UNCHANGED << tmVars, storeVars, poll, login >>

\* initiate() reading the body whatever the status of the response
InitFetch_IgnoreStatus ==
  /\ exec.pc = "initFetch"
  /\ \/ \E msg \in FetchErrors : exec' = ExecThrow(exec, msg)
     \/ \E ok \in BOOLEAN :
          exec' = [exec EXCEPT !.pc = "initJson",
                               !.init = IF ok THEN "ok" ELSE "failed"]
  /\ UNCHANGED << tmVars, storeVars, poll, login >>

\* await fetch(this.deviceAuthEndpoint, ...) rejects or gives a response,
\* and a response that is not ok is thrown
InitFetch ==
  /\ exec.pc = "initFetch"
  /\ \/ \E msg \in FetchErrors : exec' = ExecThrow(exec, msg)
     \/ \E ok \in BOOLEAN :
          exec' = IF ok
                  THEN [exec EXCEPT !.pc = "initJson", !.init = "ok"]
                  ELSE ExecThrow([exec EXCEPT !.init = "failed"], MsgDeviceAuthFailed)
  /\ UNCHANGED << tmVars, storeVars, poll, login >>

\* await response.json() throws or gives the body; initiate() returns and
\* execute() calls onUserCode, or pollForToken when there is no callback
InitJson ==
  /\ exec.pc = "initJson"
  /\ \/ /\ \E msg \in JsonErrors : exec' = ExecThrow(exec, msg)
        /\ UNCHANGED poll
     \/ \E b \in 1 .. Len(InitBodies) :
          LET data == InitBodies[b]
              deviceAuth ==
                [exec EXCEPT
                   !.body = b,
                   !.deviceCode = Field(data, "device_code"),
                   !.userCode = Field(data, "user_code"),
                   !.verificationUri = Field(data, "verification_uri"),
                   !.verificationUriComplete =
                      IF Has(data, "verification_uri_complete")
                      THEN data.verification_uri_complete
                      ELSE Field(data, "verification_uri"),
                   !.interval = IF Has(data, "interval") THEN data.interval ELSE 5] IN
            IF exec.onUserCode
            THEN /\ exec' = [deviceAuth EXCEPT !.pc = "callback", !.cb = "invoked",
                                               !.cbUrl = deviceAuth.verificationUriComplete,
                                               !.cbCode = deviceAuth.userCode]
                 /\ UNCHANGED poll
            ELSE ExecPoll(deviceAuth)
  /\ UNCHANGED << tmVars, storeVars, login >>

\* await this.onUserCode(...) settles
Callback ==
  /\ exec.pc = "callback"
  /\ \/ ExecPoll([exec EXCEPT !.cb = "completed"])
     \/ /\ exec' = ExecThrow([exec EXCEPT !.cb = "threw"], MsgCallback)
        /\ UNCHANGED poll
  /\ UNCHANGED << tmVars, storeVars, login >>

\* return await this.pollForToken(...)
ExecuteReturn ==
  /\ exec.pc = "poll"
  /\ poll.pc = "done"
  /\ exec' = [exec EXCEPT !.pc = "done", !.st = poll.st, !.msg = poll.msg]
  /\ UNCHANGED << tmVars, storeVars, poll, login >>

NextExecute ==
  \/ ExecuteCall
  \/ InitFetch
  \/ InitJson
  \/ Callback
  \/ PollTimer
  \/ PollFetch
  \/ PollJson
  \/ PollSlowTimer
  \/ ExecuteReturn

SpecExecute == InitCli /\ [][NextExecute]_vars

----------------------------------------------------------------------------
(* handleAuthLogin (lib/cli/auth-commands.mjs)                             *)

\* catch (error): the failure is logged and the process exits with 1
LoginFail(l) ==
  [l EXCEPT !.pc = "done", !.log = @ \cup {"Authentication failed"}, !.exit = 1]

\* if (!provider.initiateAuth) throw ...; otherwise provider.initiateAuth()
\* is called and awaited
LoginStart(l, supportsOAuth) ==
  IF supportsOAuth
  THEN [l EXCEPT !.pc = "initiateAuth", !.initiateAuth = @ + 1,
                 !.log = @ \cup {"Initiating OAuth authentication"}]
  ELSE LoginFail(l)

\* handleAuthLogin(args) up to its first await; isAuthenticated is what
\* provider.isAuthenticated() resolves to at the time of the call
LoginCall ==
  /\ login.pc = "idle"
  /\ \E provider \in {UNDEF, "github-copilot", "azure-openai", "ollama"},
        org \in {UNDEF, "acme", "ghost"},
        force \in BOOLEAN, authenticated \in BOOLEAN,
        registered \in BOOLEAN, supportsOAuth \in BOOLEAN :
       LET l == [login EXCEPT !.provider = provider, !.org = org, !.force = force,
                              !.isAuthenticated = authenticated,
                              !.registered = registered] IN
         login' =
           IF provider = UNDEF
           THEN [l EXCEPT !.pc = "done", !.log = {"Usage"}]
           ELSE IF org = "ghost"
           THEN LoginFail(l)
           ELSE LET g == IF org = UNDEF THEN l
                         ELSE [l EXCEPT !.log = {"Using organization"}] IN
                  IF registered
                  THEN LoginStart(g, supportsOAuth)
                  ELSE [g EXCEPT !.pc = "import"]
  /\ UNCHANGED << tmVars, storeVars, poll, exec >>

\* registry.get threw: the provider modules are imported and the provider is
\* constructed by name
LoginImport ==
  /\ login.pc = "import"
  /\ login' = IF login.provider \in {"github-copilot", "azure-openai", "generic-oidc"}
              THEN LoginStart(login, TRUE)
              ELSE LoginFail(login)
  /\ UNCHANGED << tmVars, storeVars, poll, exec >>

\* await provider.initiateAuth() settles; openBrowser is called
LoginInitiateAuth ==
  /\ login.pc = "initiateAuth"
  /\ \/ login' = LoginFail(login)
     \/ login' = [login EXCEPT !.pc = "openBrowser",
                               !.log = @ \cup {"User Code", "Verification URL"}]
  /\ UNCHANGED << tmVars, storeVars, poll, exec >>

\* await openBrowser(...) gives true or false; provider.completeAuth is called
LoginOpenBrowser ==
  /\ login.pc = "openBrowser"
  /\ \E opened \in BOOLEAN :
       login' = [login EXCEPT !.pc = "completeAuth", !.opened = opened,
                              !.completeAuth = @ + 1,
                              !.log = @ \cup {IF opened THEN "Browser opened"
                                              ELSE "Could not open browser",
                                              "Waiting for authorization"}]
  /\ UNCHANGED << tmVars, storeVars, poll, exec >>

\* await provider.completeAuth(...) settles; getTokenInfo is called
LoginCompleteAuth ==
  /\ login.pc = "completeAuth"
  /\ \/ login' = LoginFail(login)
     \/ login' = [login EXCEPT !.pc = "getTokenInfo",
                               !.log = @ \cup {"Authentication successful!"}]
  /\ UNCHANGED << tmVars, storeVars, poll, exec >>

\* await provider.tokenManager.getTokenInfo() settles
LoginGetTokenInfo ==
  /\ login.pc = "getTokenInfo"
  /\ \/ login' = LoginFail(login)
     \/ \E expiresAt \in BOOLEAN :
          login' = [login EXCEPT !.pc = "done",
                                 !.log = @ \cup (IF expiresAt THEN {"Token valid until"} ELSE {})
                                           \cup {"You can now use: git super"}]
  /\ UNCHANGED << tmVars, storeVars, poll, exec >>

NextLogin ==
  \/ LoginCall
  \/ LoginImport
  \/ LoginInitiateAuth
  \/ LoginOpenBrowser
  \/ LoginCompleteAuth
  \/ LoginGetTokenInfo

SpecLogin == InitCli /\ [][NextLogin]_vars

----------------------------------------------------------------------------
(* Properties *)

Done(c)   == call[c].op # "none" /\ ~ Running(c)
Result(c) == stack[c][1].ret
\* c's call was made while nothing else ran, and no call was made since
Alone(c)  == call[c].solo /\ last = c
Created   == { p \in RefreshTasks : stack[p] # << >> }
InFlight  == { p \in RefreshTasks : At(p, "fetch", "refresh") }
FirstTask == NCallers + 1
Header(tok) == Val("ok", FALSE, tok, TRUE)

ScenarioRec ==
  [present |-> TRUE, accessToken |-> "tok1", refreshToken |-> "ref1",
   tokenType |-> "Bearer", scope |-> ScopesJoined,
   issuedAt |-> toISOString(0), expiresAt |-> toISOString(StartTime - 3600 * 1000)]

\* C1: at most one POST to the refresh endpoint is in flight at any time,
\* whatever the calls of refreshToken() and their interleaving.
C1_SingleFlight == Cardinality(InFlight) <= 1

\* a refresh request is in flight while the call that started it and a
\* second call both wait for it
C1_Witness ==
  \E p \in InFlight : \E c, d \in Callers :
    /\ At(c, "refreshToken", "await") /\ Top(c).p = p
    /\ At(d, "refreshToken", "returned") /\ Top(d).p = p

\* C2: a refreshToken() call made while the handle of a refresh is set
\* starts no refresh of its own and settles with the outcome of that
\* refresh; no more requests are sent than refreshes were started, and two
\* calls that waited for the same refresh have the same result.
C2_JoinSharesOutcome ==
  /\ fetchCount <= Cardinality(Created)
  /\ \A c \in Callers :
       (call[c].op = "refreshToken" /\ call[c].seen # 0) =>
         /\ call[c].awaited = call[c].seen
         /\ Done(c) => Result(c) = Outcome(call[c].seen)
  /\ \A c, d \in Callers :
       ( /\ call[c].op = "refreshToken" /\ Done(c)
         /\ call[d].op = "refreshToken" /\ Done(d)
         /\ call[c].awaited = call[d].awaited ) => Result(c) = Result(d)

\* two calls, the second made while the first one's refresh was pending,
\* have both returned true after one request
C2_Witness ==
  \E c, d \in Callers :
    /\ c # d
    /\ call[c].op = "refreshToken" /\ Done(c) /\ call[c].seen = 0
    /\ call[d].op = "refreshToken" /\ Done(d) /\ call[d].seen = call[c].awaited
    /\ ~ call[d].seenSettled
    /\ Result(c).b /\ Result(d).b
    /\ fetchCount = 1

\* C3 as stated: the handle is never set after its refresh has settled, so
\* no refreshToken() call made after settlement is handed the old promise.
C3_ClearedAtSettlement == \A c \in Callers : ~ call[c].seenSettled

\* C3 amended: the handle is set only while the call that created it has
\* not yet resumed from its await; that call clears it when it resumes,
\* whatever the outcome and whoever else waits.
C3_ClearedByCreator ==
  refreshPromise # 0 =>
    \E c \in Callers : \E i \in 1 .. Len(stack[c]) :
      /\ stack[c][i].fn = "refreshToken"
      /\ stack[c][i].pc = "await"
      /\ stack[c][i].p = refreshPromise

\* a refresh failed while a second caller waited, the handle is cleared and
\* both calls have returned
C3_Witness ==
  \E c, d \in Callers :
    /\ c # d
    /\ call[c].op = "refreshToken" /\ Done(c) /\ call[c].seen = 0
    /\ call[d].op = "refreshToken" /\ Done(d) /\ call[d].seen = call[c].awaited
    /\ ~ Result(c).b
    /\ refreshPromise = 0

\* C4: with the record {tok1, ref1, expired an hour ago} stored and a
\* refresh answered with access_token tok2 and expires_in 3600,
\* getAuthHeaders() sends one refresh request and returns Bearer tok2, and a
\* getTokenInfo() that follows reports isValid true.
C4_ExpiredTokenScenario ==
  /\ \A c \in Callers :
       ( /\ seed = ScenarioRec
         /\ nCalls = 1
         /\ call[c].op = "getAuthHeaders" /\ Done(c)
         /\ cause[FirstTask] = "stored" )
       => (Result(c) = Header("tok2") /\ fetchCount = 1)
  /\ \A c, d \in Callers :
       ( /\ seed = ScenarioRec
         /\ now = StartTime
         /\ call[c].op = "getAuthHeaders" /\ Done(c) /\ call[c].solo
         /\ cause[FirstTask] = "stored"
         /\ call[d].op = "getTokenInfo" /\ Done(d) /\ Alone(d) )
       => (Result(d).tok = "info" /\ Result(d).b)

\* C5: getAuthHeaders() returns a header only if hasValidToken() was true
\* or refreshToken() returned true in that call, and the header carries a
\* token; when both were false it fails with the token-expired error; its
\* only other failure is the no-token error.
C5_HeaderOnlyWhenValid ==
  \A c \in Callers :
    (call[c].op = "getAuthHeaders" /\ Done(c)) =>
      LET r == Result(c) IN
        /\ ~ Thrown(r) => /\ r.h /\ r.tok # UNDEF
                          /\ (call[c].hv = "true" \/ call[c].rf = "true")
        /\ (call[c].hv = "false" /\ call[c].rf = "false") => r = Throw(ErrTokenExpired)
        /\ Thrown(r) => r.st \in {ErrTokenExpired, ErrNoToken}
        /\ r.st = ErrNoToken => (call[c].hv = "true" \/ call[c].rf = "true")

\* one call returned a header for a valid token and another failed with
\* the token-expired error after a refresh that returned false
C5_Witness ==
  \E c, d \in Callers :
    /\ call[c].op = "getAuthHeaders" /\ Done(c)
    /\ Result(c) = Header("tok1") /\ call[c].hv = "true"
    /\ call[d].op = "getAuthHeaders" /\ Done(d)
    /\ call[d].hv = "false" /\ call[d].rf = "false"
    /\ Result(d) = Throw(ErrTokenExpired)

\* C6: refreshToken() never raises: every _doRefresh() settles with a
\* boolean, which is false when no refresh token is stored, when the answer
\* is not 2xx, and when fetch, json() or storeTokens throws.
C6_RefreshNeverRaises ==
  /\ \A p \in RefreshTasks :
       Settled(p) =>
         /\ ~ Thrown(Outcome(p))
         /\ cause[p] \in {"noRefreshToken", "notOk", "fetchThrew",
                          "jsonThrew", "storeThrew"} => ~ Outcome(p).b
  /\ \A c \in Callers :
       (call[c].op = "refreshToken" /\ Done(c)) => ~ Thrown(Result(c))

\* a refreshToken() call returned false after credentialStore.set threw
C6_Witness ==
  \E c \in Callers :
    /\ call[c].op = "refreshToken" /\ Done(c)
    /\ cause[call[c].awaited] = "storeThrew"
    /\ Result(c) = BoolVal(FALSE)

C8_CacheAfterPersist == tokenCache.present => tokenCache \in persisted

\* a storeTokens whose set threw has returned and the cache still holds
\* the record it held before
C8_Witness ==
  \E c \in Callers :
    /\ call[c].op = "storeTokens" /\ Done(c)
    /\ Result(c) = Throw(ErrStore)
    /\ tokenCache = seed /\ seed.accessToken = "tok1"
    /\ store = seed

\* C9: getAuthHeaders() refreshes before it returns the header when the
\* stored token is unexpired but expires within the refresh threshold, and
\* when the token is expired, a refresh token being stored.
C9_PreemptiveRefresh ==
  \A c \in Callers :
    ( /\ call[c].op = "getAuthHeaders" /\ Done(c) /\ call[c].solo
      /\ call[c].rt
      /\ (call[c].near \/ call[c].expired) )
    => call[c].rf # "none"

\* C10: hasValidToken() is false without an access token, true for a token
\* whose record has no expiresAt, and otherwise true exactly when
\* expiresAt > now.
C10_HasValidToken ==
  \A c \in Callers :
    (call[c].op = "hasValidToken" /\ Done(c)) =>
      LET r == Result(c).b IN
        /\ call[c].tok = UNDEF => ~ r
        /\ (call[c].tok # UNDEF /\ call[c].exp = Absent) => r
        /\ (call[c].tok # UNDEF /\ call[c].exp # Absent) =>
             (r <=> getTime(call[c].exp) > call[c].t)
        /\ Alone(c) =>
             /\ (store.accessToken = UNDEF /\ tokenCache.accessToken = UNDEF) => ~ r
             /\ (store.accessToken # UNDEF /\ store.expiresAt = Absent) => r
             /\ (store.accessToken # UNDEF /\ store.expiresAt # Absent) =>
                  (r <=> getTime(store.expiresAt) > call[c].t)

\* hasValidToken() returned false for a token that expires at this very
\* millisecond
C10_Witness ==
  \E c \in Callers :
    /\ call[c].op = "hasValidToken" /\ Done(c) /\ Alone(c)
    /\ store.accessToken = "tok1"
    /\ store.expiresAt # Absent
    /\ getTime(store.expiresAt) = call[c].t
    /\ ~ Result(c).b

Sequential(n) == n + 1 <= Len(hist) /\ hist[n].solo /\ hist[n + 1].solo

\* C12: set(s, r) followed by get(s), on the same or on another instance,
\* returns r; and a set for one service name leaves what get returns for
\* another service name as it was.
C12_RoundTrip ==
  /\ \A n \in 1 .. Len(hist) :
       ( /\ Sequential(n)
         /\ hist[n].op = "set" /\ hist[n + 1].op = "get"
         /\ hist[n].svc = hist[n + 1].svc )
       => (~ hist[n].raised /\ ~ hist[n + 1].raised /\ hist[n + 1].res = hist[n].rec)
  /\ \A n \in 1 .. Len(hist) :
       ( /\ Sequential(n) /\ Sequential(n + 1)
         /\ hist[n].op = "get" /\ hist[n + 1].op = "set" /\ hist[n + 2].op = "get"
         /\ hist[n].svc = hist[n + 2].svc /\ hist[n].svc # hist[n + 1].svc )
       => hist[n + 2].res = hist[n].res

\* C13: delete(s) does not raise, whether s is stored or not and however
\* often it is called, and a get(s) that follows it returns null.
C13_DeleteEffective ==
  /\ \A n \in 1 .. Len(hist) : hist[n].op = "delete" => ~ hist[n].raised
  /\ \A n \in 1 .. Len(hist) :
       ( /\ Sequential(n)
         /\ hist[n].op = "delete" /\ hist[n + 1].op = "get"
         /\ hist[n].svc = hist[n + 1].svc )
       => hist[n + 1].res = NullRec

\* C14: get(s) never raises; with a credentials file that is there but
\* cannot be parsed or decrypted, a get that reads the file returns null,
\* which is every get of the file backend, and the file is left as it was.
C14_UnreadableFileIsNoValue ==
  \A n \in 1 .. Len(hist) :
    hist[n].op = "get" =>
      /\ ~ hist[n].raised
      /\ hist[n].unreadable =>
           /\ hist[n].readFile => hist[n].res = NullRec
           /\ ~ hist[n].keytarAvailable => hist[n].readFile
           /\ hist[n].solo =>
                /\ hist[n].sameFile
                /\ hist[n].res # NullRec => (hist[n].keytarAvailable /\ hist[n].inKeychain)

\* a get of the file backend has returned null for a file that is not JSON
\* or that was encrypted on another machine
C14_Witness ==
  \E n \in 1 .. Len(hist) :
    /\ hist[n].op = "get" /\ hist[n].solo /\ hist[n].unreadable
    /\ ~ hist[n].keytarAvailable /\ env.req
    /\ hist[n].readFile /\ hist[n].res = NullRec /\ ~ hist[n].raised
    /\ file \in {GarbageFile, ForeignFile}

\* the error value of the body pollForToken handled last
LastError == IF poll.body = 0 THEN UNDEF ELSE Field(PollBodies[poll.body], "error")

\* C15: a response with error expired_token, access_denied or any value
\* other than authorization_pending and slow_down ends pollForToken at
\* once: it fails with the device-code-expired, the denial, respectively
\* the generic authorization error, and no token request follows.
C15_TerminalErrors ==
  /\ LastError \notin {UNDEF, "authorization_pending", "slow_down"}
       => poll.terminal = LastError
  /\ poll.terminal # UNDEF =>
       /\ poll.pc = "done" /\ poll.st = "throw"
       /\ poll.requests = poll.atTerminal
       /\ poll.msg = IF poll.terminal = "expired_token" THEN MsgExpired
                     ELSE IF poll.terminal = "access_denied" THEN MsgDenied
                     ELSE MsgAuthorizationError(poll.terminal)

\* pollForToken has failed with the denial error on its second request
C15_Witness ==
  /\ poll.pc = "done" /\ poll.terminal = "access_denied"
  /\ poll.msg = MsgDenied /\ poll.requests = 2 /\ poll.answered = 1

\* C16: pollForToken sends at most 180 token requests, and a call in which
\* no response was a success or a terminal error fails with the
\* authorization-timeout error, after 180 requests.
C16_BoundedPolling ==
  /\ poll.requests <= 180
  /\ (poll.pc = "done" /\ poll.st # "ok" /\ poll.terminal = UNDEF)
       => (poll.st = "throw" /\ poll.msg = MsgTimeout /\ poll.requests = 180)

\* C17: no fetch that rejects and no body that is not JSON ends the
\* polling, whatever its message: pollForToken never fails with the error
\* of a transient failure.
C17_TransientSwallowed ==
  ~ (poll.pc = "done" /\ poll.st = "throw" /\ poll.msg \in FetchErrors \cup JsonErrors)

\* C18: pollForToken returns only for a body without error that carries an
\* access_token, and the accessToken it returns is that token.
C18_SuccessHasToken ==
  (poll.pc = "done" /\ poll.st = "ok") =>
    /\ ~ Has(PollBodies[poll.body], "error")
    /\ Has(PollBodies[poll.body], "access_token")
    /\ poll.accessToken = PollBodies[poll.body].access_token
    /\ poll.accessToken # UNDEF

\* C19: every token request is sent at least one interval after the call
\* and after the request before it: exactly one interval after
\* authorization_pending, at least two intervals after slow_down.
C19_Pace ==
  poll.requests >= 1 =>
    /\ poll.gap >= poll.pollInterval
    /\ poll.gapPrev = "pending" => poll.gap = poll.pollInterval
    /\ poll.gapPrev = "slow" => poll.gap >= 2 * poll.pollInterval

\* the second request has been sent two intervals after a slow_down
C19_Witness ==
  /\ poll.requests = 2 /\ poll.gapPrev = "slow"
  /\ poll.pollInterval = 5000 /\ poll.gap = 10000

\* C20: one token request per attempt: as many requests were sent as
\* attempts were begun, and a call answered k times with
\* authorization_pending or slow_down and then with tokens returns after
\* k + 1 requests.
C20_OneRequestPerAttempt ==
  /\ poll.requests = IF poll.pc \in {"idle", "sleep"} \/ poll.msg = MsgTimeout
                     THEN poll.attempt ELSE poll.attempt + 1
  /\ (poll.pc = "done" /\ poll.st = "ok" /\ ~ poll.transient) =>
       /\ poll.requests = poll.answered + 1
       /\ poll.attempt = poll.answered /\ poll.answered < 180

\* after one authorization_pending and a success payload the call has
\* returned the tokens, two requests sent
C20_Witness ==
  /\ poll.pc = "done" /\ poll.st = "ok" /\ ~ poll.transient
  /\ poll.answered = 1 /\ poll.gapPrev = "pending" /\ poll.requests = 2
  /\ poll.accessToken = "tok4"

\* C21: execute() runs initiate, then the onUserCode callback, then the
\* polling: the callback is invoked with the verification URL and the user
\* code of the device authorization response and has completed before the
\* first token request is sent (and before pollForToken is entered); when
\* the device authorization request is answered with a non-2xx status,
\* execute() throws and neither the callback nor a token request happens.
C21_ExecuteOrder ==
  /\ exec.cb # "none" =>
       /\ exec.init = "ok" /\ exec.onUserCode
       /\ exec.cbCode = Field(InitBodies[exec.body], "user_code")
       /\ exec.cbUrl \in { Field(InitBodies[exec.body], "verification_uri_complete"),
                           Field(InitBodies[exec.body], "verification_uri") }
       /\ exec.cbUrl # UNDEF
  /\ exec.cb \in {"invoked", "threw"} => poll.pc = "idle" /\ poll.requests = 0
  /\ (poll.pc # "idle" \/ poll.requests > 0) =>
       /\ exec.init = "ok"
       /\ exec.onUserCode => exec.cb = "completed"
  /\ exec.init = "failed" =>
       /\ exec.cb = "none" /\ poll.pc = "idle" /\ poll.requests = 0
       /\ exec.pc = "done" /\ exec.st = "throw" /\ exec.msg = MsgDeviceAuthFailed

\* the callback has completed and the first token request is out
C21_Witness ==
  /\ exec.onUserCode /\ exec.cb = "completed" /\ exec.body = 2
  /\ exec.cbUrl = "https://example.com/device"
  /\ poll.requests = 1 /\ poll.pc = "fetch"

\* C22: handleAuthLogin on a provider that is already authenticated starts
\* no authorization, that is, it does not call initiateAuth and it reports
\* 'Already authenticated', unless the force flag is given; with the force
\* flag initiateAuth is called.
C22_SkipWhenAuthenticated ==
  login.isAuthenticated /\ login.provider # UNDEF =>
    IF login.force
    THEN login.pc = "done" /\ login.exit = 0 => login.initiateAuth = 1
    ELSE /\ login.initiateAuth = 0
         /\ login.pc = "done" /\ login.exit = 0 => "Already authenticated" \in login.log

\* C23: a refreshToken() that returns false leaves the record of the
\* CredentialStore and tokenCache as they were before the call (stated for
\* the first call on a TokenManager, before which the store holds the seed
\* and the cache is null); and a record written over the existing one by a
\* refresh carries a new access token.
C23_FailedRefreshChangesNothing ==
  /\ \A c \in Callers :
       ( /\ call[c].op = "refreshToken" /\ nCalls = 1 /\ Done(c)
         /\ Result(c) = BoolVal(FALSE) )
       => (store = seed /\ tokenCache = NullRec)
  /\ \A p \in RefreshTasks :
       cause[p] = "stored" /\ nCalls = 1 =>
         /\ store.accessToken # UNDEF
         /\ store.accessToken # seed.accessToken

\* C24: the backend detected at construction governs get, set and delete:
\* an instance on the keychain never reads or writes the credentials file,
\* and an instance on the file never calls the keychain.
C24_SingleBackend ==
  /\ \A n \in 1 .. Len(hist) : hist[n].keytarAvailable => ~ hist[n].readFile
  /\ \A i \in Insts :
       /\ sop[i].readFile => ~ cs[i].keytarAvailable
       /\ sop[i].pc = "keytar" => cs[i].keytarAvailable

\* C25: a record storeTokens has written carries expiresAt = storage time +
\* expiresIn * 1000 ms for every expiresIn the token object came with (the
\* token objects handed to storeTokens all carry one), and getAccessToken,
\* hasValidToken, needsRefresh and getTokenInfo leave the stored record,
\* hence its expiresAt and issuedAt, as it was.
C25_ExpiresAt ==
  /\ \A c \in Callers :
       ( /\ call[c].op = "storeTokens" /\ Done(c) /\ Alone(c)
         /\ ~ Thrown(Result(c)) )
       => /\ store.present
          /\ store.issuedAt # Absent
          /\ \E i \in 1 .. Len(LoginTokens) :
               /\ store.accessToken = LoginTokens[i].accessToken
               /\ store.refreshToken = Field(LoginTokens[i], "refreshToken")
               /\ store.expiresAt =
                    toISOString(getTime(store.issuedAt) + LoginTokens[i].expiresIn * 1000)
  /\ \A c \in Callers :
       ( /\ call[c].op \in {"getAccessToken", "hasValidToken", "needsRefresh", "getTokenInfo"}
         /\ nCalls = 1 )
       => store = seed

\* two getAuthHeaders() calls, the second made while the first was running,
\* on a TokenManager whose stored token is expired and has a refresh token
ConcurrentHeaders ==
  /\ \A c \in Callers : call[c].op = "getAuthHeaders"
  /\ \E c \in Callers : ~ call[c].solo
  /\ Expired(seed, StartTime) /\ seed.refreshToken # UNDEF

C27_LogoutIsFinal ==
  \A c, d \in Callers :
    ( /\ call[c].op = "revokeToken" /\ Done(c)
      /\ call[d].op \in {"refreshToken", "storeTokens"} /\ Done(d)
      /\ ~ (call[c].solo /\ call[d].solo) )
    => (store = NullRec /\ tokenCache = NullRec)

\* C28: whenever no operation of the TokenManager is in progress, after any
\* interleaving of getAccessToken, storeTokens, refreshToken and
\* revokeToken calls, tokenCache is null or equal to the record the
\* CredentialStore holds.
C28_CacheCoherence ==
  ( /\ \A t \in Tasks : ~ Running(t)
    /\ \A c \in Callers :
         call[c].op \in {"none", "getAccessToken", "storeTokens",
                         "refreshToken", "revokeToken"} )
  => (tokenCache = NullRec \/ tokenCache = store)

\* two set calls for different service names have written the credentials
\* file, and nothing else has been called
TwoFileSets ==
  /\ Len(hist) = 2
  /\ \A i \in Insts : ~ Busy(i)
  /\ \A n \in 1 .. 2 : hist[n].op = "set" /\ hist[n].readFile /\ ~ hist[n].raised
  /\ hist[1].svc # hist[2].svc

InFile(n) == Decryptable(file) /\ _decrypt(file)[hist[n].svc] = hist[n].rec

\* C29 as claimed: after two set calls for different service names on the
\* same credentials file both records are in the file, however their read
\* and write steps interleave.
C29_NoLostUpdate ==
  TwoFileSets => (InFile(1) /\ InFile(2))

\* C29: after two set calls for different service names on the same
\* credentials file, the record of the call that wrote last is in the file,
\* and both records are when the calls did not overlap; when both calls
\* read before either wrote, the last writer replaces the whole file.
C29_LastWriterWins ==
  TwoFileSets =>
    /\ InFile(2)
    /\ Sequential(1) => InFile(1)

\* both calls read before either wrote, and the first record is lost
C29_Witness ==
  /\ TwoFileSets
  /\ ~ hist[2].solo /\ hist[1].i # hist[2].i
  /\ InFile(2) /\ ~ InFile(1)

\* C30: on an instance with the keychain available, a record set(s, r) has
\* accepted (set returned without raising, having written the keychain or,
\* after a keychain write failure, the file) is what the next get(s)
\* returns, also when a keychain call of the set or of the get fails.
C30_DegradesWithoutLoss ==
  \A n \in 1 .. Len(hist) :
    ( /\ Sequential(n)
      /\ hist[n].op = "set" /\ hist[n].keytarAvailable /\ ~ hist[n].raised
      /\ hist[n + 1].op = "get" /\ hist[n + 1].keytarAvailable
      /\ hist[n + 1].svc = hist[n].svc )
    => (~ hist[n + 1].raised /\ hist[n + 1].res = hist[n].rec)

====
